---- MODULE Spec2Model ----
(***************************************************************************)
(* State-machine model of the client-side notification engine of the       *)
(* dashboard (src/contexts/NotificationContext.tsx): the NotificationProvider*)
(* component, its React state hooks and effects, localStorage, the browser  *)
(* Notification permission, and the callbacks the provider exports.         *)
(*                                                                         *)
(* React semantics that the model keeps:                                    *)
(*  - a callback reads the state captured by the last render (its closure); *)
(*  - setState(value) / setState(updater) enqueue an update; the queue is   *)
(*    applied, in order, by the next render;                                *)
(*  - an updater function (sendNotification's) runs when the queue is       *)
(*    applied, or eagerly at the call when nothing is pending;              *)
(*  - effects run after the commit whose render changed their dependencies. *)
(***************************************************************************)
EXTENDS Integers, Sequences, FiniteSets, TLC

\* ---------------------------------------------------------------- bounds
MaxSends == 2        \* notifications generated per page session
MaxTime == 2         \* largest value of the wall clock
MaxPending == 2      \* ledger updates enqueued between two renders
MaxFailures == 1     \* localStorage.setItem calls that throw
MaxInflight == 1     \* updateSettings calls awaiting the permission prompt
MaxLogins == 2       \* changes of the auth user per page session

\* ------------------------------------------------------ program constants
MaxNotifications == 50

Users == {"A", "B"}
NoUser == "null"

SettingKeys ==
  {"email", "push", "weeklySummary", "taskReminders", "deadlineAlerts", "teamUpdates"}

defaultSettings ==
  [email |-> TRUE, push |-> FALSE, weeklySummary |-> FALSE,
   taskReminders |-> TRUE, deadlineAlerts |-> TRUE, teamUpdates |-> TRUE]

\* the spread with its operands in the wrong order: the base wins
SpreadReversed(base, partial) ==
  [k \in (DOMAIN base) \cup (DOMAIN partial) |->
     IF k \in DOMAIN base THEN base[k] ELSE partial[k]]

\* { ...base, ...partial }
Spread(base, partial) ==
  [k \in (DOMAIN base) \cup (DOMAIN partial) |->
     IF k \in DOMAIN partial THEN partial[k] ELSE base[k]]

\* ------------------------------------------------------------------ JSON
\* JSON.stringify of an object: the text is its set of members.
StringifyObject(obj) == [t |-> "obj", v |-> {<<k, obj[k]>> : k \in DOMAIN obj}]
\* JSON.stringify of an array of notifications.
StringifyArray(arr) == [t |-> "arr", v |-> arr]
\* JSON.parse; only called on a text for which ParseThrows is FALSE.
ParseObject(text) ==
  [k \in {m[1] : m \in text.v} |-> (CHOOSE m \in text.v : m[1] = k)[2]]
ParseArray(text) == text.v
ParseThrows(text) == text.t = "corrupt"

NullItem == [t |-> "null"]          \* getItem of an absent key
CorruptItem == [t |-> "corrupt"]    \* a text JSON.parse rejects

SettingsKey(u) == <<"notification_settings", u>>
NotificationsKey(u) == <<"notifications", u>>
StorageKeys == {SettingsKey(u) : u \in Users} \cup {NotificationsKey(u) : u \in Users}

\* ----------------------------------------------------------- notifications
\* { ...notification, id, read: false, created_at } (lines 169-174).  `data`
\* stands for what the caller supplied and the provider only copies: title,
\* message and data; created_at is the clock reading that is id[1].
Notification(id, type, category, data) ==
  [id |-> id, type |-> type, category |-> category, data |-> data, read |-> FALSE]

\* notifications.filter(n => !n.read).length
RECURSIVE UnreadOf(_)
UnreadOf(led) ==
  IF led = <<>> THEN 0
  ELSE (IF led[1].read THEN 0 ELSE 1) + UnreadOf(Tail(led))

IdsOf(led) == {led[i].id : i \in 1..Len(led)}

\* prev.findIndex(n => n.id === id) !== -1
HasId(led, id) == \E i \in 1..Len(led) : led[i].id = id

\* the prepend without the slice
PrependUncapped(n, prev) == <<n>> \o prev

\* [newNotification, ...prev].slice(0, 50)
Prepend(n, prev) == SubSeq(<<n>> \o prev, 1,
                           IF Len(prev) + 1 > MaxNotifications
                           THEN MaxNotifications ELSE Len(prev) + 1)

\* the updater passed to setNotifications by sendNotification
AppendUpdater(n, prev) == IF HasId(prev, n.id) THEN prev ELSE Prepend(n, prev)

\* notifications.map(n => n.id === id ? { ...n, read: true } : n)
MarkOne(led, id) ==
  [i \in 1..Len(led) |-> IF led[i].id = id THEN [led[i] EXCEPT !.read = TRUE] ELSE led[i]]

\* notifications.map(n => ({ ...n, read: true }))
MarkEvery(led) == [i \in 1..Len(led) |-> [led[i] EXCEPT !.read = TRUE]]

RECURSIVE UniqueKeepsLast(_, _)
\* a de-duplication that keeps the last occurrence of an id
UniqueKeepsLast(led, seen) ==
  IF led = <<>> THEN <<>>
  ELSE IF \E i \in 2..Len(led) : led[i].id = led[1].id
       THEN UniqueKeepsLast(Tail(led), seen)
       ELSE <<led[1]>> \o UniqueKeepsLast(Tail(led), seen)

\* parsed.filter((n, index, self) => index === self.findIndex(m => m.id === n.id))
RECURSIVE Unique(_, _)
Unique(led, seen) ==
  IF led = <<>> THEN <<>>
  ELSE IF led[1].id \in seen THEN Unique(Tail(led), seen)
       ELSE <<led[1]>> \o Unique(Tail(led), seen \cup {led[1].id})

\* ------------------------------------------------------------------ state
VARIABLES
  user,                \* useAuth().user as of the last render: a user id or NoUser
  settings,            \* useState: settings
  notifications,       \* useState: notifications (newest first)
  unreadCount,         \* useState: unreadCount
  pushSupported,       \* useState: pushSupported
  initialized,         \* useState: initialized
  qSettings,           \* pending setSettings(value): <<>> or <<value>>
  qNotifications,      \* pending setNotifications updates, in call order
  qUnread,             \* pending setUnreadCount result: <<>> or <<value>>
  qPushSupported,      \* pending setPushSupported(true)
  qInitialized,        \* pending setInitialized(true)
  subscribed,          \* the window listeners of the event bridge are installed
  mounted,             \* the provider is mounted (FALSE after an uncaught render/effect error)
  storage,             \* localStorage: key -> text
  permission,          \* Notification.permission
  platformSupported,   \* 'Notification' in window && 'serviceWorker' in navigator
  notificationCounter, \* the module-level id counter
  clock,               \* Date.now()
  calls,               \* updateSettings calls suspended at await requestPushPermission()
  failures,            \* number of setItem calls that have thrown
  logins,              \* number of changes of the auth user since the page loaded
  loaded,              \* history: the users the initialize effect has run for since the page loaded
  lastOp,              \* history: the last operation and what it did
  activeModalCount,    \* Modal: the module-level counter of open modals
  bodyOverflow,        \* document.body.style.overflow: "" or "hidden"
  modals,              \* the Modal instances: mounted, isOpen, hasSetScrollRef, originalOverflow
  scrollManager,       \* ScrollManager: mounted, debug mode, warnings counted, timeouts pending
  requests,            \* AppContext: createProject / updateProject / deleteProject calls in flight
  events               \* history: the project events AppContext has dispatched on window

vars == <<user, settings, notifications, unreadCount, pushSupported, initialized,
          qSettings, qNotifications, qUnread, qPushSupported, qInitialized,
          subscribed, mounted, storage, permission, platformSupported,
          notificationCounter, clock, calls, failures, logins, loaded, lastOp,
          activeModalCount, bodyOverflow, modals, scrollManager, requests, events>>

rendered == <<user, settings, notifications, unreadCount, pushSupported, initialized>>
queues == <<qSettings, qNotifications, qUnread, qPushSupported, qInitialized>>
platform == <<permission, platformSupported>>
page == <<activeModalCount, bodyOverflow, modals, scrollManager>>
app == <<requests, events>>

Dirty ==
  \/ qSettings # <<>> \/ qNotifications # <<>> \/ qUnread # <<>>
  \/ qPushSupported \/ qInitialized

Op(name, threw, info) == [op |-> name, threw |-> threw, info |-> info]
\* what a history record says beyond the name: always a record
Phase(p) == [phase |-> p]
NoInfo == [none |-> TRUE]

\* ------------------------------------------------------- the page's modals
MaxModals == 3       \* Modal instances the page can show
ModalIds == 1..MaxModals

\* a Modal instance that is not mounted
NoModal == [mounted |-> FALSE, isOpen |-> FALSE, hasSetScroll |-> FALSE, original |-> ""]

\* ScrollManager before it is mounted
NoScrollManager ==
  [mounted |-> FALSE, debug |-> FALSE, warnings |-> 0, recent |-> FALSE, timeouts |-> 0]

\* ------------------------------------------- entries left by earlier sessions
OldEntry(k, read) ==
  [id |-> <<0, k, 0>>, type |-> "push", category |-> "deadline", data |-> "p1", read |-> read]

\* a stored ledger of n entries, newest first; every third entry is read
OldLedger(n) == [i \in 1..n |-> OldEntry(n + 1 - i, (n + 1 - i) % 3 = 0)]

EmptyStore == [k \in StorageKeys |-> NullItem]

\* localStorage as earlier sessions can have left it
LedgerStores ==
  { [EmptyStore EXCEPT ![NotificationsKey("A")] = StringifyArray(OldLedger(MaxNotifications - 1)),
                       ![SettingsKey("A")] =
                           StringifyObject([defaultSettings EXCEPT !.push = TRUE])],
    [EmptyStore EXCEPT ![NotificationsKey("A")] = StringifyArray(OldLedger(2)),
                       ![NotificationsKey("B")] = StringifyArray(OldLedger(1))] }

SettingsStores ==
  { EmptyStore,
    [EmptyStore EXCEPT ![SettingsKey("A")] =
                           StringifyObject([defaultSettings EXCEPT !.push = TRUE]),
                       ![SettingsKey("B")] = CorruptItem] }

\* --------------------------------------------------------- id generation
Randoms == {"k3x9qa"}

\* A stored entry that carries an id the generator produces again: written by
\* an earlier process at the same clock reading, with the same counter value
\* and random suffix (ids are unique within one process only).
ReplayedEntry(k, read) ==
  [id |-> <<1, k, CHOOSE r \in Randoms : TRUE>>, type |-> "push",
   category |-> "deadline", data |-> "p1", read |-> read]

CollidingStores ==
  { [EmptyStore EXCEPT ![NotificationsKey(u)] = StringifyArray(led)] :
      u \in Users,
      led \in { <<ReplayedEntry(1, FALSE)>>,
                <<ReplayedEntry(2, TRUE), ReplayedEntry(1, FALSE)>>,
                <<ReplayedEntry(2, FALSE)>> \o OldLedger(2) } }

\* ledgers in which an id occurs more than once, left by an earlier version
DamagedStores ==
  { [EmptyStore EXCEPT ![NotificationsKey("A")] =
                           StringifyArray(<<OldEntry(2, FALSE), OldEntry(1, TRUE),
                                            OldEntry(2, TRUE), OldEntry(1, FALSE),
                                            OldEntry(3, FALSE)>>),
                       ![NotificationsKey("B")] =
                           StringifyArray(<<OldEntry(2, FALSE), OldEntry(1, FALSE)>>)],
    [EmptyStore EXCEPT ![NotificationsKey("A")] =
                           StringifyArray(<<OldEntry(1, TRUE), OldEntry(1, FALSE)>>),
                       ![NotificationsKey("B")] = CorruptItem] }

\* what a caller puts in a notification addressed to the signed-in user
PersonalData(u) == IF u = "A" THEN "to A" ELSE "to B"

\* user A left a ledger of one personal notification and settings with
\* e-mail switched off; user B has used the application on this device too
\* and left the default settings, or has not
PersonalStores ==
  { [EmptyStore EXCEPT ![NotificationsKey("A")] =
                           StringifyArray(<<[OldEntry(1, FALSE) EXCEPT !.data = PersonalData("A")]>>),
                       ![SettingsKey("A")] =
                           StringifyObject([defaultSettings EXCEPT !.email = FALSE]),
                       ![SettingsKey("B")] = b] :
      b \in {NullItem, StringifyObject(defaultSettings)} }

\* settings that switch the task reminders off for one user
ReminderStores ==
  { EmptyStore,
    [EmptyStore EXCEPT ![SettingsKey("B")] =
       StringifyObject([defaultSettings EXCEPT !.taskReminders = FALSE])] }

\* settings that switch the weekly summary on, or the deadline alerts off
EvaluatorStores ==
  { EmptyStore,
    [EmptyStore EXCEPT ![SettingsKey("A")] =
                           StringifyObject([defaultSettings EXCEPT !.weeklySummary = TRUE]),
                       ![SettingsKey("B")] =
                           StringifyObject([defaultSettings EXCEPT !.deadlineAlerts = FALSE])] }

InitStores ==
  LedgerStores \cup SettingsStores \cup CollidingStores \cup EvaluatorStores
    \cup DamagedStores \cup ReminderStores \cup PersonalStores

\* ------------------------------------------------------------------- Init
\* The state after the first render and its mount effects: auth has no user
\* yet, so the initialize effect returned at its guard; the support probe has
\* called setPushSupported(true) where the platform has the capability.
Init ==
  /\ user = NoUser
  /\ settings = defaultSettings
  /\ notifications = <<>>
  /\ unreadCount = 0
  /\ pushSupported = FALSE
  /\ initialized = FALSE
  /\ qSettings = <<>>
  /\ qNotifications = <<>>
  /\ qUnread = <<>>
  /\ platformSupported \in BOOLEAN
  /\ qPushSupported = platformSupported
  /\ qInitialized = FALSE
  /\ subscribed = FALSE
  /\ mounted = TRUE
  /\ storage \in InitStores
  /\ permission \in {"default", "granted", "denied"}
  /\ notificationCounter = 0
  /\ clock = 1
  /\ calls = <<>>
  /\ failures = 0
  /\ logins = 0
  /\ loaded = {}
  /\ lastOp = Op("mount", FALSE, NoInfo)
  /\ activeModalCount = 0
  /\ bodyOverflow = ""
  /\ modals = [m \in ModalIds |-> NoModal]
  /\ scrollManager = NoScrollManager
  /\ requests = <<>>
  /\ events = <<>>

\* ------------------------------------------------- applying the update queue
\* One queued setNotifications update applied to prev: a value replaces it, an
\* updater (sendNotification, lines 177-186) computes the next ledger and,
\* unless the id is already present, writes it under the key of the user its
\* closure captured.
RECURSIVE ApplyQueue(_, _, _)
ApplyQueue(q, prev, store) ==
  IF q = <<>> THEN [led |-> prev, store |-> store]
  ELSE LET u == Head(q) IN
       IF u.op = "set" THEN ApplyQueue(Tail(q), u.val, store)
       ELSE IF HasId(prev, u.n.id) THEN ApplyQueue(Tail(q), prev, store)
       ELSE ApplyQueue(Tail(q), Prepend(u.n, prev),
                       [store EXCEPT ![NotificationsKey(u.uid)] =
                                        StringifyArray(Prepend(u.n, prev))])

\* the f-th queued update is an updater that reaches its setItem call
WritesAt(q, prev, store, f) ==
  /\ f \in 1..Len(q)
  /\ q[f].op = "add"
  /\ ~HasId(ApplyQueue(SubSeq(q, 1, f - 1), prev, store).led, q[f].n.id)

\* ---------------------------------------------------- the initialize effect
\* a load that leaves out the synchronisation with the platform permission
LoadSettingsUnsynced(u, ps, perm, store) ==
  LET saved == store[SettingsKey(u)]
  IN IF saved = NullItem \/ ParseThrows(saved) THEN defaultSettings
     ELSE Spread(defaultSettings, ParseObject(saved))

\* lines 84-105: stored settings merged over the defaults, then synchronised
\* with the platform permission when the closure saw pushSupported.
LoadSettings(u, ps, perm, store) ==
  LET saved == store[SettingsKey(u)]
      base == IF saved = NullItem \/ ParseThrows(saved) THEN defaultSettings
              ELSE Spread(defaultSettings, ParseObject(saved))
  IN IF ~ps THEN base
     ELSE IF perm = "granted" /\ ~base.push THEN [base EXCEPT !.push = TRUE]
     ELSE IF perm = "denied" THEN [base EXCEPT !.push = FALSE]
     ELSE base

\* lines 111-117: TRUE when a stored ledger is present and parses
LedgerLoads(u, store) ==
  /\ store[NotificationsKey(u)] # NullItem
  /\ ~ParseThrows(store[NotificationsKey(u)])

LoadNotifications(u, store) == Unique(ParseArray(store[NotificationsKey(u)]), {})

NeedsRepair(u, store) ==
  Len(LoadNotifications(u, store)) # Len(ParseArray(store[NotificationsKey(u)]))

\* An uncaught error in a render or an effect: React unmounts the tree; the
\* listeners are removed by the effect cleanup.
Crashed(u, store, name, info) ==
  /\ mounted' = FALSE
  /\ subscribed' = FALSE
  /\ user' = u
  /\ qSettings' = <<>> /\ qNotifications' = <<>> /\ qUnread' = <<>>
  /\ qPushSupported' = FALSE /\ qInitialized' = FALSE
  /\ storage' = store
  /\ failures' = failures + 1
  /\ lastOp' = Op(name, TRUE, info)
  /\ UNCHANGED <<settings, notifications, unreadCount, pushSupported, initialized,
                 platform, notificationCounter, clock, calls, loaded>>

\* lines 81-131, run after a commit with the closure (u, ps) when its
\* dependencies [user?.id, pushSupported, initialized] changed and the guard
\* of line 82 passes.  store is localStorage as the render left it.
\* The variant in which line 108 throws is in Commit.
InitializeEffect(u, ps, store, name) ==
  LET s == LoadSettings(u, ps, permission, store)
      st1 == [store EXCEPT ![SettingsKey(u)] = StringifyObject(s)]
      uniq == LoadNotifications(u, st1)
      st2 == [st1 EXCEPT ![NotificationsKey(u)] = StringifyArray(uniq)]
  IN
  \/ \* no stored ledger, or it does not parse (caught, line 125)
     /\ ~LedgerLoads(u, st1)
     /\ qSettings' = <<s>> /\ qNotifications' = <<>> /\ qUnread' = <<>>
     /\ qInitialized' = TRUE /\ qPushSupported' = FALSE
     /\ storage' = st1
     /\ lastOp' = Op(name, FALSE, Phase("initialize"))
     /\ UNCHANGED failures
  \/ \* stored ledger loaded; rewritten when de-duplication shortened it
     /\ LedgerLoads(u, st1)
     /\ qSettings' = <<s>>
     /\ qNotifications' = <<[op |-> "set", val |-> uniq]>>
     /\ qUnread' = <<UnreadOf(uniq)>>
     /\ qInitialized' = TRUE /\ qPushSupported' = FALSE
     /\ storage' = IF NeedsRepair(u, st1) THEN st2 ELSE st1
     /\ lastOp' = Op(name, FALSE, Phase("initialize"))
     /\ UNCHANGED failures
  \/ \* line 120 throws inside the try block: caught, the ledger is not set
     /\ LedgerLoads(u, st1) /\ NeedsRepair(u, st1)
     /\ failures < MaxFailures
     /\ qSettings' = <<s>> /\ qNotifications' = <<>> /\ qUnread' = <<>>
     /\ qInitialized' = TRUE /\ qPushSupported' = FALSE
     /\ storage' = st1
     /\ failures' = failures + 1
     /\ lastOp' = Op(name, FALSE, Phase("initialize"))

\* A render of the provider with auth user u, followed by its effects.
\* f = 0: every queued updater ran; f > 0: the setItem of the f-th one threw.
Commit(u, name) ==
  \E f \in 0..Len(qNotifications) :
    LET done == IF f = 0 THEN qNotifications ELSE SubSeq(qNotifications, 1, f - 1)
        r == ApplyQueue(done, notifications, storage)
        s1 == IF qSettings = <<>> THEN settings ELSE qSettings[1]
        un1 == IF qUnread = <<>> THEN unreadCount ELSE qUnread[1]
        ps1 == pushSupported \/ qPushSupported
        in1 == initialized \/ qInitialized
        runInit == /\ <<user, pushSupported, initialized>> # <<u, ps1, in1>>
                   /\ u # NoUser /\ ~in1
    IN
    \/ /\ f > 0
       /\ failures < MaxFailures
       /\ WritesAt(qNotifications, notifications, storage, f)
       /\ Crashed(u, r.store, name, Phase("render"))
    \/ \* line 108 throws: the initialize effect throws
       /\ f = 0 /\ runInit
       /\ failures < MaxFailures
       /\ Crashed(u, r.store, name, Phase("initialize"))
    \/ /\ f = 0
       /\ user' = u
       /\ settings' = s1
       /\ notifications' = r.led
       /\ unreadCount' = un1
       /\ pushSupported' = ps1
       /\ initialized' = in1
       /\ mounted' = TRUE
       /\ UNCHANGED <<platform, notificationCounter, clock, calls>>
       /\ IF runInit
          THEN /\ InitializeEffect(u, ps1, r.store, name)
               /\ subscribed' = FALSE
               /\ loaded' = loaded \cup {u}
          ELSE /\ UNCHANGED loaded
               /\ qSettings' = <<>> /\ qNotifications' = <<>> /\ qUnread' = <<>>
               /\ qPushSupported' = FALSE /\ qInitialized' = FALSE
               /\ storage' = r.store
               /\ subscribed' = (s1.teamUpdates /\ u # NoUser /\ in1)
               /\ lastOp' = Op(name, FALSE, Phase("render"))
               /\ UNCHANGED failures

\* React re-renders the provider because state updates are pending.
Render == mounted /\ Dirty /\ Commit(user, "render") /\ UNCHANGED <<logins, page, app>>

\* The auth context publishes another user (sign-in, sign-out, switch); the
\* provider re-renders with it, flushing whatever was pending.
SetUser(u) ==
  /\ mounted /\ u # user
  /\ logins < MaxLogins
  /\ logins' = logins + 1
  /\ Commit(u, "setUser")
  /\ UNCHANGED <<page, app>>

\* an id made of the timestamp and the random suffix only
generateWithoutCounter(rnd) == <<clock, 0, rnd>>

\* lines 56-61, after the increment: `notification-${timestamp}-${counter}-${random}`
generateUniqueNotificationId(rnd) == <<clock, notificationCounter + 1, rnd>>

\* --------------------------------------------------------- sendNotification
\* a dispatch test that does not look at the platform permission
DispatchesUnasked == settings.push /\ pushSupported

\* line 191: a native alert is constructed
Dispatches == settings.push /\ pushSupported /\ permission = "granted"

\* lines 166-208 for a caller that passed (type, category, data); the caller's
\* closure is the last render.  name and tag only label the history record.
SendBody(type, category, data, name, tag) ==
  \E rnd \in Randoms :
    LET id == generateUniqueNotificationId(rnd)
        n == Notification(id, type, category, data)
        unreadNow == IF qUnread = <<>> THEN unreadCount ELSE qUnread[1]
        updated == Prepend(n, notifications)
        written == [storage EXCEPT ![NotificationsKey(user)] = StringifyArray(updated)]
    IN
    /\ user # NoUser
    /\ notificationCounter < MaxSends
    /\ Len(qNotifications) < MaxPending
    /\ notificationCounter' = notificationCounter + 1
    /\ qUnread' = <<unreadNow + 1>>
    /\ \E alert \in (IF Dispatches THEN {"shown", "failed"} ELSE {"none"}) :
         lastOp' = Op(name, FALSE, [id |-> id, alert |-> alert, tag |-> tag])
    /\ \/ \* the updater is queued and runs in the next render
          /\ qNotifications' = Append(qNotifications, [op |-> "add", n |-> n, uid |-> user])
          /\ UNCHANGED <<storage, failures>>
       \/ \* nothing pending: the updater runs at once and its result is queued
          /\ ~Dirty /\ ~HasId(notifications, id)
          /\ qNotifications' = <<[op |-> "set", val |-> updated]>>
          /\ storage' = written
          /\ UNCHANGED failures
       \/ \* nothing pending, duplicate id: the eager result is the same ledger
          /\ ~Dirty /\ HasId(notifications, id)
          /\ UNCHANGED <<qNotifications, storage, failures>>
       \/ \* the eager run throws in setItem: suppressed, re-run by the render
          /\ ~Dirty /\ ~HasId(notifications, id)
          /\ failures < MaxFailures
          /\ failures' = failures + 1
          /\ qNotifications' = Append(qNotifications, [op |-> "add", n |-> n, uid |-> user])
          /\ UNCHANGED storage
    /\ UNCHANGED <<rendered, qSettings, qPushSupported, qInitialized, subscribed,
                   mounted, platform, clock, calls, logins, loaded, page>>

Payloads == {<<"push", "deadline", "p1">>}

\* a rule evaluator or another consumer of the context calls sendNotification
SendNotification(pl) ==
  /\ mounted
  /\ SendBody(pl[1], pl[2], pl[3], "sendNotification", "direct")
  /\ UNCHANGED app

\* a consumer sends the signed-in user a notification that is about that user
SendPersonal ==
  /\ mounted /\ user \in Users
  /\ SendBody("push", "task", PersonalData(user), "sendNotification", "personal")
  /\ UNCHANGED app

\* ------------------------------------------------------------ event bridge
EventKinds == {"projectUpdated", "projectCreated"}
Actors == Users \cup {NoUser}

\* a guard that forgets to compare the actor with the current user
NotifiesAnyActor(actor) == actor # NoUser

\* actionUser && actionUser.id !== user.id (lines 396, 410)
NotifiesActor(actor) == actor # NoUser /\ actor # user

\* lines 393-419: handleProjectUpdate / handleProjectCreated
HandleProjectEvent(kind, actor) ==
  IF NotifiesActor(actor)
  THEN SendBody("push", "team", actor, kind, actor)
  ELSE /\ lastOp' = Op(kind, FALSE, [id |-> <<>>, alert |-> "none", tag |-> actor])
       /\ UNCHANGED <<rendered, queues, subscribed, mounted, storage, platform,
                      notificationCounter, clock, calls, failures, logins, loaded, page>>

\* the event finds no listener of the provider (the effect returned at
\* line 391, or its cleanup ran)
NoListener(kind, actor) ==
  /\ lastOp' = Op(kind, FALSE, [id |-> <<>>, alert |-> "none", tag |-> actor])
  /\ UNCHANGED <<rendered, queues, subscribed, mounted, storage, platform,
                 notificationCounter, clock, calls, failures, logins, loaded, page>>

\* a window event, dispatched by any code of the page, reaches the installed
\* listener
BridgeEvent(kind, actor) ==
  /\ mounted /\ subscribed
  /\ HandleProjectEvent(kind, actor)
  /\ UNCHANGED app

\* a window event is dispatched while no listener of the provider is installed
EventUnheard(kind, actor) ==
  /\ ~subscribed
  /\ NoListener(kind, actor)
  /\ UNCHANGED app

\* ------------------------------------------------- markAsRead / markAllAsRead
MaxMark == 1
AbsentId == <<0, 0, 0>>
Min(a, b) == IF a < b THEN a ELSE b
\* ids a caller passes: those of the newest displayed entries, or one nobody has
MarkChoices == {notifications[i].id : i \in 1..Min(Len(notifications), MaxMark)}
                 \cup {AbsentId}

\* a value update of the ledger and the unread count, then setItem
SetLedger(upd, unread, name, info) ==
  /\ mounted /\ user # NoUser
  /\ Len(qNotifications) < MaxPending
  /\ qNotifications' = Append(qNotifications, [op |-> "set", val |-> upd])
  /\ qUnread' = <<unread>>
  /\ \/ /\ storage' = [storage EXCEPT ![NotificationsKey(user)] = StringifyArray(upd)]
        /\ lastOp' = Op(name, FALSE, info)
        /\ UNCHANGED failures
     \/ /\ failures < MaxFailures
        /\ failures' = failures + 1
        /\ lastOp' = Op(name, TRUE, info)
        /\ UNCHANGED storage
  /\ UNCHANGED <<rendered, qSettings, qPushSupported, qInitialized, subscribed,
                 mounted, platform, notificationCounter, clock, calls, logins, loaded, page, app>>

\* lines 211-221
MarkAsRead(id) ==
  SetLedger(MarkOne(notifications, id), UnreadOf(MarkOne(notifications, id)),
            "markAsRead", [marked |-> id])

\* lines 224-231
MarkAllAsRead ==
  SetLedger(MarkEvery(notifications), 0, "markAllAsRead", NoInfo)

\* a clearAll that persists an empty sequence in the place of removing the key
ClearAllStoresEmpty == SetLedger(<<>>, 0, "clearAll", NoInfo)

\* lines 234-240
ClearAll ==
  /\ mounted /\ user # NoUser
  /\ Len(qNotifications) < MaxPending
  /\ qNotifications' = Append(qNotifications, [op |-> "set", val |-> <<>>])
  /\ qUnread' = <<0>>
  /\ storage' = [storage EXCEPT ![NotificationsKey(user)] = NullItem]
  /\ lastOp' = Op("clearAll", FALSE, NoInfo)
  /\ UNCHANGED <<rendered, qSettings, qPushSupported, qInitialized, subscribed,
                 mounted, platform, notificationCounter, clock, calls, failures, logins, loaded, page, app>>

\* ----------------------------------------------------------- rule evaluators
\* Instants are milliseconds counted from 2024-05-31T00:00:00.000Z, so that
\* Day(10) is 2024-06-10T00:00Z; the page session starts one clock unit
\* before that day begins and `clock` counts the milliseconds since.
DayMs == 1000 * 3600 * 24
Day(d) == d * DayMs
Epoch == Day(10) - 1
Now == Epoch + clock

Missing == <<>>          \* an absent (undefined / null / empty) field
Some(x) == <<x>>         \* a field that holds x

\* Math.floor in the place of Math.ceil
Floor(a, b) == a \div b

\* Math.ceil(a / b) for an integer a and a positive integer b
Ceil(a, b) == -((-a) \div b)
\* Math.trunc in the place of Math.round
Truncate(a, b) == a \div b

\* Math.round(a / b) for non-negative a and positive b: halves round up
Round(a, b) == (2 * a + b) \div (2 * b)
Abs(a) == IF a < 0 THEN -a ELSE a

\* the project set of the app context, as the projects of earlier API calls
\* left it: id, status, due_date || deadline, updated_at || created_at,
\* budget, progress
Project(id, status, due, updated, budget, progress) ==
  [id |-> id, status |-> status, due |-> due, updated |-> updated,
   budget |-> budget, progress |-> progress]

ProjectPool ==
  << Project("p1", "in_progress", Some(Day(11)), Day(1), Some(1000), 50),
     Project("p2", "planning", Some(Day(5)), Day(2), Some(2000), 100),
     Project("p3", "completed", Some(Day(5)), Day(9), Some(0), 0),
     Project("p4", "review", Some(Day(13)), Day(3), Missing, 25),
     Project("p5", "on_hold", Missing, Day(2), Some(500), 26),
     Project("p6", "in_progress", Some(Day(10) + 1), Day(9), Some(1), 0),
     Project("p7", "planning", Some(Day(10) - 1), Day(8), Some(3), 10) >>

MaxProjects == 3     \* projects in the project set an evaluator sees
MaxPasses == 1       \* notifications of the session after which no pass is made

\* the project sets looked at: runs of the pool of at most MaxProjects
ProjectLists ==
  { SubSeq(ProjectPool, x[1], x[2]) :
      x \in { y \in (1..Len(ProjectPool)) \X (0..Len(ProjectPool)) :
                y[2] - y[1] < MaxProjects } }

\* lines 252-259: the days until due of a non-completed project with a date
daysDiff(project, now) == Ceil(project.due[1] - now, DayMs)

\* lines 252-296 for one project: the notification it asks for, if any
DeadlineAlert(project, now) ==
  IF project.status = "completed" \/ project.due = Missing THEN <<>>
  ELSE LET d == daysDiff(project, now)
           c(msg) == [type |-> "push", category |-> "deadline",
                      data |-> [projectId |-> project.id, message |-> msg]]
       IN (IF d = 1 THEN <<c(<<"tomorrow">>)>> ELSE <<>>)
          \o (IF d = 3 THEN <<c(<<"in 3 days">>)>> ELSE <<>>)
          \o (IF d < 0 THEN <<c(<<"overdue", Abs(d)>>)>> ELSE <<>>)

RECURSIVE DeadlineAlerts(_, _)
\* projects.forEach(...), lines 251-296
DeadlineAlerts(projects, now) ==
  IF projects = <<>> THEN <<>>
  ELSE DeadlineAlert(Head(projects), now) \o DeadlineAlerts(Tail(projects), now)

\* a window of the next seven days that leaves today out
UpcomingAfterToday(d) == d > 0 /\ d <= 7

\* daysDiff >= 0 && daysDiff <= 7 (line 316)
Upcoming(d) == d >= 0 /\ d <= 7

\* lines 306-317: projects.filter(...)
upcomingProjects(projects, now) ==
  LET selected(p) == /\ p.status # "completed"
                     /\ p.due # Missing
                     /\ Upcoming(daysDiff(p, now))
  IN SelectSeq(projects, selected)

\* lines 319-327: the reminder, if any; the pool names a project by its id
TaskReminder(projects, now) ==
  LET up == upcomingProjects(projects, now) IN
  IF Len(up) > 0
  THEN <<[type |-> "push", category |-> "task",
          data |-> [projectCount |-> Len(up),
                    projects |-> [i \in 1..Len(up) |-> up[i].id]]]>>
  ELSE <<>>

RECURSIVE Sum(_)
\* values.reduce((sum, v) => sum + (v || 0), 0)
Sum(values) ==
  IF values = <<>> THEN 0
  ELSE Sum(SubSeq(values, 1, Len(values) - 1))
         + (IF values[Len(values)] = Missing THEN 0 ELSE values[Len(values)][1])

\* lines 336-383: the summary notification
WeeklySummary(projects, now) ==
  LET weekAgo == now - 7 * DayMs
      completedThisWeek(p) == p.status = "completed" /\ p.updated >= weekAgo
      inProgress(p) == p.status \in {"in_progress", "planning"}
      overdue(p) == p.status # "completed" /\ p.due # Missing /\ p.due[1] < now
      totalBudget == Sum([i \in 1..Len(projects) |-> projects[i].budget])
      avgProgress == IF Len(projects) > 0
                     THEN Round(Sum([i \in 1..Len(projects) |-> Some(projects[i].progress)]),
                                Len(projects))
                     ELSE 0
  IN [type |-> "email", category |-> "summary",
      data |-> [completed |-> Len(SelectSeq(projects, completedThisWeek)),
                inProgress |-> Len(SelectSeq(projects, inProgress)),
                overdue |-> Len(SelectSeq(projects, overdue)),
                total |-> Len(projects),
                avgProgress |-> avgProgress,
                totalBudget |-> totalBudget]]

RECURSIVE EmitAll(_, _, _)
\* The sendNotification calls one evaluator pass makes, in order, all from
\* the closure of the last render.  st carries the update queue, the unread
\* count to come, localStorage, the id counter and the ids generated so far;
\* st.eager says whether the first call's updater runs at once.
EmitAll(st, cands, rnd) ==
  IF cands = <<>> THEN st
  ELSE LET c == Head(cands)
           id == <<clock, st.counter + 1, rnd>>
           n == Notification(id, c.type, c.category, c.data)
           updated == Prepend(n, notifications)
           runsNow == st.eager /\ ~HasId(notifications, id)
       IN EmitAll([q |-> IF runsNow THEN <<[op |-> "set", val |-> updated]>>
                         ELSE IF st.eager THEN st.q
                         ELSE Append(st.q, [op |-> "add", n |-> n, uid |-> user]),
                   unread |-> st.unread + 1,
                   store |-> IF runsNow
                             THEN [st.store EXCEPT ![NotificationsKey(user)] =
                                                      StringifyArray(updated)]
                             ELSE st.store,
                   counter |-> st.counter + 1,
                   ids |-> Append(st.ids, id),
                   eager |-> FALSE],
                  Tail(cands), rnd)

\* an evaluator hands cands to sendNotification (lines 166-208), one by one
EmitBody(cands, name, info) ==
  \E rnd \in Randoms, eagerThrows \in BOOLEAN :
    LET st0 == [q |-> qNotifications,
                unread |-> IF qUnread = <<>> THEN unreadCount ELSE qUnread[1],
                store |-> storage, counter |-> notificationCounter, ids |-> <<>>,
                eager |-> ~Dirty /\ ~eagerThrows]
        st == EmitAll(st0, cands, rnd)
    IN
    /\ notificationCounter + Len(cands) <= MaxSends
    /\ Len(qNotifications) + Len(cands) <= MaxPending
    /\ IF eagerThrows
       THEN /\ cands # <<>> /\ ~Dirty /\ failures < MaxFailures
            /\ ~HasId(notifications, <<clock, notificationCounter + 1, rnd>>)
            /\ failures' = failures + 1
       ELSE UNCHANGED failures
    /\ qNotifications' = st.q
    /\ qUnread' = IF cands = <<>> THEN qUnread ELSE <<st.unread>>
    /\ storage' = st.store
    /\ notificationCounter' = st.counter
    /\ lastOp' = Op(name, FALSE, [ids |-> st.ids, alert |-> Dispatches] @@ info)
    /\ UNCHANGED <<rendered, qSettings, qPushSupported, qInitialized, subscribed,
                   mounted, platform, clock, calls, logins, loaded, page, app>>

\* lines 243-297
ScheduleDeadlineAlerts(projects) ==
  /\ mounted /\ notificationCounter < MaxPasses
  /\ LET run == settings.deadlineAlerts /\ user # NoUser /\ projects # <<>>
     IN EmitBody(IF run THEN DeadlineAlerts(projects, Now) ELSE <<>>,
                 "scheduleDeadlineAlerts", [projects |-> projects, now |-> Now])

\* lines 331-384
SendWeeklySummary(projects) ==
  /\ mounted /\ notificationCounter < MaxPasses
  /\ LET run == settings.weeklySummary /\ user # NoUser /\ projects # <<>>
     IN EmitBody(IF run THEN <<WeeklySummary(projects, Now)>> ELSE <<>>,
                 "sendWeeklySummary", [projects |-> projects, now |-> Now])

\* lines 300-328
ScheduleTaskReminders(projects) ==
  /\ mounted /\ notificationCounter < MaxPasses
  /\ LET run == settings.taskReminders /\ user # NoUser /\ projects # <<>>
     IN EmitBody(IF run THEN TaskReminder(projects, Now) ELSE <<>>,
                 "scheduleTaskReminders", [projects |-> projects, now |-> Now])

\* ------------------------------------------------------------ updateSettings
Partials == { [push |-> TRUE], [push |-> FALSE], [email |-> FALSE] }

\* newSettings.push === true && pushSupported (line 142)
AsksPermission(p) == "push" \in DOMAIN p /\ p.push /\ pushSupported

\* lines 134-143, up to the await: merge, setSettings, setItem; a call that
\* enables push on a supporting platform then waits for the permission prompt.
UpdateSettings(p) ==
  LET updated == Spread(settings, p) IN
  /\ mounted /\ user # NoUser
  /\ AsksPermission(p) => Len(calls) < MaxInflight
  /\ qSettings' = <<updated>>
  /\ \/ /\ storage' = [storage EXCEPT ![SettingsKey(user)] = StringifyObject(updated)]
        /\ calls' = IF AsksPermission(p)
                    THEN Append(calls, [uid |-> user, updated |-> updated,
                                        writes |-> <<updated>>])
                    ELSE calls
        /\ lastOp' = Op("updateSettings", FALSE,
                        [uid |-> user, partial |-> p, awaits |-> AsksPermission(p)])
        /\ UNCHANGED failures
     \/ \* line 139 throws: the promise rejects
        /\ failures < MaxFailures
        /\ failures' = failures + 1
        /\ lastOp' = Op("updateSettings", TRUE,
                        [uid |-> user, partial |-> p, awaits |-> FALSE])
        /\ UNCHANGED <<storage, calls>>
  /\ UNCHANGED <<rendered, qNotifications, qUnread, qPushSupported, qInitialized,
                 subscribed, mounted, platform, notificationCounter, clock, logins, loaded, page, app>>

\* What Notification.requestPermission() can produce: the user's answer to the
\* prompt (or its dismissal) when undecided, the decision already taken
\* otherwise, or an exception.
Outcomes == {permission, "throw"} \cup
            (IF permission = "default" THEN {"granted", "denied"} ELSE {})

\* a rollback that leaves the flag as it is
RevertedKeepsPush(s) == s

\* { ...updatedSettings, push: false } (line 145)
Reverted(s) == [s EXCEPT !.push = FALSE]

RemoveAt(seq, i) == SubSeq(seq, 1, i - 1) \o SubSeq(seq, i + 1, Len(seq))

\* lines 153-163 and 143-149: the prompt of the i-th waiting call settles and
\* the call resumes with the closure it started with.
PermissionSettles(i, outcome) ==
  LET c == calls[i]
      granted == outcome = "granted"            \* lines 157-162
      revertedSettings == Reverted(c.updated)
  IN
  /\ permission' = IF outcome = "throw" THEN permission ELSE outcome
  /\ calls' = RemoveAt(calls, i)
  /\ IF granted
     THEN /\ lastOp' = Op("permission", FALSE,
                          [uid |-> c.uid, granted |-> TRUE, writes |-> c.writes])
          /\ UNCHANGED <<qSettings, storage, failures>>
     ELSE /\ qSettings' = IF mounted THEN <<revertedSettings>> ELSE qSettings
          /\ \/ /\ storage' = [storage EXCEPT ![SettingsKey(c.uid)] =
                                                StringifyObject(revertedSettings)]
                /\ lastOp' = Op("permission", FALSE,
                                [uid |-> c.uid, granted |-> FALSE,
                                 writes |-> Append(c.writes, revertedSettings)])
                /\ UNCHANGED failures
             \/ \* line 147 throws: the promise rejects
                /\ failures < MaxFailures
                /\ failures' = failures + 1
                /\ lastOp' = Op("permission", TRUE,
                                [uid |-> c.uid, granted |-> FALSE, writes |-> c.writes])
                /\ UNCHANGED storage
  /\ UNCHANGED <<rendered, qNotifications, qUnread, qPushSupported, qInitialized,
                 subscribed, mounted, platformSupported, notificationCounter, clock, logins, loaded, page, app>>

\* -------------------------------------------------------------- AppContext
MaxRequests == 1     \* project operations in flight at one time
MaxCalls == 2        \* project operations started that did not reject

ProjectOps == {"createProject", "updateProject", "deleteProject"}

\* the event type each operation dispatches (lines 166, 204, 232)
KindOf(op) == IF op = "createProject" THEN "projectCreated" ELSE "projectUpdated"

\* an operation that dispatches before it knows how the API call ended
DispatchedAnyway(c, ok) == <<[kind |-> KindOf(c.op), actor |-> c.uid, op |-> c.op]>>

\* the events operation c dispatches when its apiCall resolved (ok) or threw:
\* dispatchProjectEvent follows the awaited call inside the try block, with
\* `user: user` of the operation's closure
Dispatched(c, ok) ==
  IF ok THEN <<[kind |-> KindOf(c.op), actor |-> c.uid, op |-> c.op]>> ELSE <<>>

\* the operation rejects: `throw new Error(...)` at its first line or in catch
Rejects(c, at) ==
  /\ lastOp' = Op(c.op, TRUE, [uid |-> c.uid, at |-> at])
  /\ UNCHANGED <<rendered, queues, subscribed, mounted, storage, platform,
                 notificationCounter, clock, calls, failures, logins, loaded, page>>

\* lines 153-157, 181-185, 221-225: a consumer calls the operation; it throws
\* without a user, else it awaits getAccessToken()
ProjectCall(op) ==
  /\ mounted
  /\ IF user = NoUser
     THEN /\ Rejects([op |-> op, uid |-> NoUser], "auth")
          /\ UNCHANGED app
     ELSE /\ Len(requests) < MaxRequests
          /\ Len(requests) + Len(events) < MaxCalls
          /\ requests' = Append(requests, [op |-> op, uid |-> user, phase |-> "token"])
          /\ lastOp' = Op(op, FALSE, [uid |-> user, at |-> "called"])
          /\ UNCHANGED <<rendered, queues, subscribed, mounted, storage, platform,
                         notificationCounter, clock, calls, failures, logins, loaded,
                         page, events>>

\* getAccessToken() settles: the operation goes on to apiCall, or rejects
TokenSettles(i, ok) ==
  LET c == requests[i] IN
  /\ c.phase = "token"
  /\ IF ok
     THEN /\ requests' = [requests EXCEPT ![i].phase = "api"]
          /\ lastOp' = Op(c.op, FALSE, [uid |-> c.uid, at |-> "token"])
          /\ UNCHANGED <<rendered, queues, subscribed, mounted, storage, platform,
                         notificationCounter, clock, calls, failures, logins, loaded, page>>
     ELSE /\ requests' = RemoveAt(requests, i)
          /\ Rejects(c, "token")
  /\ UNCHANGED events

\* apiCall settles (lines 45-69): on success the event is dispatched and its
\* listeners, if installed, run before dispatchEvent returns; then the
\* operation awaits the refresh.  On failure the catch block rethrows.
ApiSettles(i, ok) ==
  LET c == requests[i]
      evs == Dispatched(c, ok)
  IN
  /\ c.phase = "api"
  /\ events' = events \o evs
  /\ requests' = IF ok THEN [requests EXCEPT ![i].phase = "refresh"]
                 ELSE RemoveAt(requests, i)
  /\ IF evs # <<>>
     THEN IF mounted /\ subscribed
          THEN HandleProjectEvent(evs[1].kind, evs[1].actor)
          ELSE NoListener(evs[1].kind, evs[1].actor)
     ELSE Rejects(c, "api")

\* Promise.all([fetchProjects(), fetchStats()]) settles (both catch their
\* own errors, lines 121-126 and 145-148): the operation resolves
RefreshSettles(i) ==
  LET c == requests[i] IN
  /\ c.phase = "refresh"
  /\ requests' = RemoveAt(requests, i)
  /\ lastOp' = Op(c.op, FALSE, [uid |-> c.uid, at |-> "resolved"])
  /\ UNCHANGED <<rendered, queues, subscribed, mounted, storage, platform,
                 notificationCounter, clock, calls, failures, logins, loaded,
                 page, events>>

\* ------------------------------------------------------------------ Modal
\* everything of the notification provider and of AppContext
others == <<rendered, queues, subscribed, mounted, storage, platform,
            notificationCounter, clock, calls, failures, logins, loaded, app>>

Max(a, b) == IF a > b THEN a ELSE b

\* document.querySelectorAll('[data-modal-open="true"]').length > 0: a Modal
\* renders that element exactly while it is mounted with isOpen
HasOpenModals == \E m \in ModalIds : modals[m].mounted /\ modals[m].isOpen

\* originalOverflow || '' (line 70)
Restore(original) == IF original = "" THEN "" ELSE original

\* Modal, lines 47-61: the scroll-lock effect runs with isOpen true.  st is
\* [count, overflow, modal]: the counter, the body style and the instance.
LockScroll(st) ==
  [count |-> st.count + 1,
   overflow |-> "hidden",
   modal |-> [st.modal EXCEPT !.hasSetScroll = TRUE, !.original = st.overflow]]

\* Modal, lines 63-76: the cleanup the effect returned
ReleaseScroll(st) ==
  IF st.modal.hasSetScroll
  THEN LET c == Max(0, st.count - 1) IN
       [count |-> c,
        overflow |-> IF c = 0 THEN Restore(st.modal.original) ELSE st.overflow,
        modal |-> [st.modal EXCEPT !.hasSetScroll = FALSE]]
  ELSE st

\* Modal, lines 96-108: the cleanup of the mount-only effect
UnmountCleanup(st) ==
  IF st.modal.hasSetScroll
  THEN LET c == Max(0, st.count - 1) IN
       [count |-> c,
        overflow |-> IF c = 0 THEN "" ELSE st.overflow,
        modal |-> st.modal]
  ELSE st

\* the state record of instance m
ModalState(m) == [count |-> activeModalCount, overflow |-> bodyOverflow, modal |-> modals[m]]

\* the variables after instance m went through its effects
ModalStep(m, st, isMounted, open, name) ==
  /\ activeModalCount' = st.count
  /\ bodyOverflow' = st.overflow
  /\ modals' = [modals EXCEPT ![m] = IF isMounted
                                      THEN [st.modal EXCEPT !.mounted = TRUE, !.isOpen = open]
                                      ELSE NoModal]
  /\ lastOp' = Op(name, FALSE, [modal |-> m])
  /\ UNCHANGED <<scrollManager, others>>

\* a parent renders a new <Modal isOpen={open}>
ModalMount(m, open) ==
  /\ ~modals[m].mounted
  /\ ModalStep(m, IF open THEN LockScroll(ModalState(m)) ELSE ModalState(m),
               TRUE, open, "modalMount")

\* isOpen becomes true: the effect of line 46 runs
ModalOpen(m) ==
  /\ modals[m].mounted /\ ~modals[m].isOpen
  /\ ModalStep(m, LockScroll(ModalState(m)), TRUE, TRUE, "modalOpen")

\* isOpen becomes false: the cleanup of the last effect run
ModalClose(m) ==
  /\ modals[m].mounted /\ modals[m].isOpen
  /\ ModalStep(m, ReleaseScroll(ModalState(m)), TRUE, FALSE, "modalClose")

\* the parent stops rendering the Modal: the cleanups run in the order the
\* effects were declared, the scroll-lock one (if isOpen) before line 98's
ModalUnmount(m) ==
  /\ modals[m].mounted
  /\ ModalStep(m, UnmountCleanup(IF modals[m].isOpen
                                 THEN ReleaseScroll(ModalState(m))
                                 ELSE ModalState(m)),
               FALSE, FALSE, "modalUnmount")

\* ----------------------------------------------------------- ScrollManager
MaxTimeouts == 1     \* setTimeout(performSafetyCheck, 100) calls pending

\* a check that does not look for open modals
performBlindCheck(overflow) == IF overflow = "hidden" THEN "" ELSE overflow

\* ScrollManager, lines 665-673
performSafetyCheck(overflow) ==
  IF ~HasOpenModals /\ overflow = "hidden" THEN "" ELSE overflow

\* useScrollDebug, lines 18-47: one run of checkScrollState, with longAgo =
\* (now - lastResetTimeRef.current > 5000)
checkScrollState(sm, overflow, longAgo) ==
  IF overflow = "hidden" /\ ~HasOpenModals
  THEN LET w == sm.warnings + 1
           resets == longAgo /\ w >= 2
       IN [sm |-> [sm EXCEPT !.warnings = IF resets THEN 0 ELSE w,
                             !.recent = resets],
           overflow |-> IF resets THEN "" ELSE overflow]
  ELSE [sm |-> [sm EXCEPT !.warnings = 0, !.recent = FALSE], overflow |-> overflow]

ScrollStep(sm, overflow, name, info) ==
  /\ scrollManager' = sm
  /\ bodyOverflow' = overflow
  /\ lastOp' = Op(name, FALSE, info)
  /\ UNCHANGED <<activeModalCount, modals, others>>

\* <ScrollManager /> mounts in a development (dev) or production build: the
\* effect of useScrollDebug runs first (lines 7-55), then lines 657-677
ScrollManagerMount(dev) ==
  /\ ~scrollManager.mounted
  /\ LET sm0 == [scrollManager EXCEPT !.mounted = TRUE, !.debug = dev,
                                     !.warnings = 0, !.recent = FALSE]
         d == IF dev THEN checkScrollState(sm0, bodyOverflow, TRUE)
              ELSE [sm |-> sm0, overflow |-> bodyOverflow]
     IN ScrollStep(d.sm, performSafetyCheck(d.overflow), "scrollManagerMount",
                   [reset |-> performSafetyCheck(d.overflow) # bodyOverflow])

\* ScrollManager renders again: useScrollDebug returns a new resetScroll
\* function (lines 58-66), the dependency [resetScroll] has changed, so the
\* cleanup (lines 696-702) runs and the effect runs again
ScrollManagerRerender ==
  /\ scrollManager.mounted
  /\ ScrollStep(scrollManager, performSafetyCheck(""), "scrollManagerRender",
                [reset |-> bodyOverflow # ""])

\* ScrollManager unmounts: lines 696-702 and line 52
ScrollManagerUnmount ==
  /\ scrollManager.mounted
  /\ ScrollStep([scrollManager EXCEPT !.mounted = FALSE, !.warnings = 0, !.recent = FALSE],
                "", "scrollManagerUnmount", [reset |-> bodyOverflow # ""])

\* lines 680-689: the window gets the focus, or the document becomes visible
\* (again = TRUE) or hidden
WindowEvent(kind, again) ==
  /\ scrollManager.mounted
  /\ scrollManager.timeouts < MaxTimeouts
  /\ ScrollStep([scrollManager EXCEPT !.timeouts = IF again THEN @ + 1 ELSE @],
                bodyOverflow, kind, [reset |-> FALSE])

\* a timeout set by line 681 or 687 fires
TimeoutCheck ==
  /\ scrollManager.timeouts > 0
  /\ ScrollStep([scrollManager EXCEPT !.timeouts = @ - 1],
                performSafetyCheck(bodyOverflow), "timeoutCheck",
                [reset |-> performSafetyCheck(bodyOverflow) # bodyOverflow])

\* the interval of line 693 fires
PeriodicCheck ==
  /\ scrollManager.mounted
  /\ ScrollStep(scrollManager, performSafetyCheck(bodyOverflow), "periodicCheck",
                [reset |-> performSafetyCheck(bodyOverflow) # bodyOverflow])

\* the interval of useScrollDebug fires (line 50); five seconds after a reset
\* the test of line 31 can go either way
DebugCheck(longAgo) ==
  /\ scrollManager.mounted /\ scrollManager.debug
  /\ longAgo \/ scrollManager.recent
  /\ LET d == checkScrollState(scrollManager, bodyOverflow, longAgo)
     IN ScrollStep(d.sm, d.overflow, "debugCheck", [reset |-> d.overflow # bodyOverflow])

\* ------------------------------------------------------------- environment
\* time passes
Tick ==
  /\ clock < MaxTime
  /\ clock' = clock + 1
  /\ lastOp' = Op("tick", FALSE, NoInfo)
  /\ UNCHANGED <<rendered, queues, subscribed, mounted, storage, platform,
                 notificationCounter, calls, failures, logins, loaded, page, app>>

\* The page is loaded again, later: a new process with a new module instance
\* and a fresh provider; localStorage and the permission survive.
Reload ==
  /\ clock < MaxTime
  /\ clock' = clock + 1
  /\ user' = NoUser
  /\ settings' = defaultSettings
  /\ notifications' = <<>>
  /\ unreadCount' = 0
  /\ pushSupported' = FALSE
  /\ initialized' = FALSE
  /\ qSettings' = <<>> /\ qNotifications' = <<>> /\ qUnread' = <<>>
  /\ qPushSupported' = platformSupported
  /\ qInitialized' = FALSE
  /\ subscribed' = FALSE
  /\ mounted' = TRUE
  /\ notificationCounter' = 0
  /\ calls' = <<>>
  /\ logins' = 0
  /\ loaded' = {}
  /\ lastOp' = Op("mount", FALSE, NoInfo)
  /\ activeModalCount' = 0
  /\ bodyOverflow' = ""
  /\ modals' = [m \in ModalIds |-> NoModal]
  /\ scrollManager' = NoScrollManager
  /\ requests' = <<>>
  /\ UNCHANGED <<storage, platform, failures, events>>

Next ==
  \/ Render
  \/ \E u \in Users \cup {NoUser} : SetUser(u)
  \/ \E pl \in Payloads : SendNotification(pl)
  \/ \E k \in EventKinds, a \in Actors : BridgeEvent(k, a)
  \/ \E id \in MarkChoices : MarkAsRead(id)
  \/ MarkAllAsRead
  \/ ClearAll
  \/ \E p \in Partials : UpdateSettings(p)
  \/ \E i \in 1..Len(calls), o \in Outcomes : PermissionSettles(i, o)
  \/ Tick
  \/ Reload

Spec == Init /\ [][Next]_vars

\* The ledger operations alone: the settings stay as initialize loaded them.
NextLedger ==
  \/ Render
  \/ \E u \in Users \cup {NoUser} : SetUser(u)
  \/ \E pl \in Payloads : SendNotification(pl)
  \/ \E id \in MarkChoices : MarkAsRead(id)
  \/ MarkAllAsRead
  \/ ClearAll

InitLedger ==
  /\ Init
  /\ storage \in LedgerStores
  /\ ~platformSupported /\ permission = "default"

SpecLedger == InitLedger /\ [][NextLedger]_vars

\* Appends alone.
NextAppends ==
  \/ Render
  \/ \E u \in Users \cup {NoUser} : SetUser(u)
  \/ \E pl \in Payloads : SendNotification(pl)

SpecAppends == InitLedger /\ [][NextAppends]_vars

InitCollide ==
  /\ Init
  /\ storage \in CollidingStores
  /\ permission \in {"default", "granted"}

\* Appends whose candidate id may already be in the ledger.
SpecCollide == InitCollide /\ [][NextAppends]_vars

\* The Deadline Alerts rule, triggered by a consumer of the context.
NextDeadlines ==
  \/ Render
  \/ \E u \in Users \cup {NoUser} : SetUser(u)
  \/ Tick
  \/ \E projects \in ProjectLists : ScheduleDeadlineAlerts(projects)

InitEvaluators ==
  /\ Init
  /\ storage \in EvaluatorStores
  /\ ~platformSupported /\ permission = "default"

SpecDeadlines == InitEvaluators /\ [][NextDeadlines]_vars

InitReminders ==
  /\ Init
  /\ storage \in ReminderStores
  /\ ~platformSupported /\ permission = "default"

\* The Weekly Summary rule, triggered by a consumer of the context.
NextSummary ==
  \/ Render
  \/ \E u \in Users \cup {NoUser} : SetUser(u)
  \/ Tick
  \/ \E projects \in ProjectLists : SendWeeklySummary(projects)

SpecSummary == InitEvaluators /\ [][NextSummary]_vars

\* The Task Reminders rule, triggered by a consumer of the context.
NextReminders ==
  \/ Render
  \/ \E u \in Users \cup {NoUser} : SetUser(u)
  \/ Tick
  \/ \E projects \in ProjectLists : ScheduleTaskReminders(projects)

SpecReminders == InitReminders /\ [][NextReminders]_vars

\* The three rules side by side, over the same project sets and instants.
NextEvaluators ==
  \/ Render
  \/ \E u \in Users \cup {NoUser} : SetUser(u)
  \/ Tick
  \/ \E projects \in ProjectLists : ScheduleDeadlineAlerts(projects)
  \/ \E projects \in ProjectLists : ScheduleTaskReminders(projects)
  \/ \E projects \in ProjectLists : SendWeeklySummary(projects)

SpecEvaluators == InitEvaluators /\ [][NextEvaluators]_vars

\* Id generation in one process: single sends and evaluator passes (several
\* ids at one clock reading), the clock advancing or not.
NextIds ==
  \/ Render
  \/ \E u \in Users \cup {NoUser} : SetUser(u)
  \/ \E pl \in Payloads : SendNotification(pl)
  \/ \E projects \in ProjectLists : ScheduleDeadlineAlerts(projects)
  \/ Tick

\* user A's stored ledger holds ids the generator will produce again
InitIds ==
  /\ Init
  /\ storage = [EmptyStore EXCEPT ![NotificationsKey("A")] =
                   StringifyArray(<<ReplayedEntry(2, TRUE), ReplayedEntry(1, FALSE)>>)]
  /\ ~platformSupported /\ permission = "default"

SpecIds == InitIds /\ [][NextIds]_vars

\* Project events delivered while the team-updates setting is switched and
\* the auth user changes.
NextWindow ==
  \/ Render
  \/ \E u \in Users \cup {NoUser} : SetUser(u)
  \/ \E b \in BOOLEAN : UpdateSettings([teamUpdates |-> b])
  \/ \E k \in EventKinds, a \in Actors : BridgeEvent(k, a)
  \/ \E k \in EventKinds, a \in Actors : EventUnheard(k, a)

InitWindow ==
  /\ Init
  /\ storage = EmptyStore
  /\ ~platformSupported /\ permission = "default"

SpecWindow == InitWindow /\ [][NextWindow]_vars

\* Two users of one browser sign in and out within one page session.
NextIsolation ==
  \/ Render
  \/ \E u \in Users \cup {NoUser} : SetUser(u)
  \/ SendPersonal
  \/ \E id \in MarkChoices : MarkAsRead(id)
  \/ UpdateSettings([push |-> FALSE])

InitIsolation ==
  /\ Init
  /\ storage \in PersonalStores
  /\ ~platformSupported /\ permission = "default"

SpecIsolation == InitIsolation /\ [][NextIsolation]_vars

\* Modal instances mounted, opened, closed and unmounted in every order.
NextModals ==
  \/ \E m \in ModalIds, open \in BOOLEAN : ModalMount(m, open)
  \/ \E m \in ModalIds : ModalOpen(m)
  \/ \E m \in ModalIds : ModalClose(m)
  \/ \E m \in ModalIds : ModalUnmount(m)

InitPage ==
  /\ Init
  /\ storage = EmptyStore
  /\ ~platformSupported /\ permission = "default"

SpecModals == InitPage /\ [][NextModals]_vars

\* The modals together with ScrollManager and its checks.
NextScroll ==
  \/ NextModals
  \/ \E dev \in BOOLEAN : ScrollManagerMount(dev)
  \/ ScrollManagerRerender
  \/ ScrollManagerUnmount
  \/ \E again \in BOOLEAN : WindowEvent("visibilitychange", again)
  \/ WindowEvent("focus", TRUE)
  \/ TimeoutCheck
  \/ PeriodicCheck
  \/ \E longAgo \in BOOLEAN : DebugCheck(longAgo)

SpecScroll == InitPage /\ [][NextScroll]_vars

\* setInterval(performSafetyCheck, 15000), line 693: while ScrollManager is
\* mounted the periodic check keeps firing
SpecScrollFair == SpecScroll /\ WF_vars(PeriodicCheck)

\* Project operations of AppContext while users sign in and out.
NextProjects ==
  \/ Render
  \/ \E u \in Users \cup {NoUser} : SetUser(u)
  \/ \E op \in ProjectOps : ProjectCall(op)
  \/ \E i \in 1..Len(requests), ok \in BOOLEAN : TokenSettles(i, ok)
  \/ \E i \in 1..Len(requests), ok \in BOOLEAN : ApiSettles(i, ok)
  \/ \E i \in 1..Len(requests) : RefreshSettles(i)

SpecProjects == InitPage /\ [][NextProjects]_vars

\* Clearing a ledger that was loaded, appended to, or both.
NextClear ==
  \/ Render
  \/ \E u \in Users \cup {NoUser} : SetUser(u)
  \/ \E pl \in Payloads : SendNotification(pl)
  \/ ClearAll

SpecClear == InitLedger /\ [][NextClear]_vars

\* Loading stored ledgers, some with repeated ids, over page sessions.
NextLoad ==
  \/ Render
  \/ \E u \in Users \cup {NoUser} : SetUser(u)
  \/ MarkAllAsRead
  \/ Reload

InitLoad ==
  /\ Init
  /\ storage \in DamagedStores
  /\ ~platformSupported /\ permission = "default"

SpecLoad == InitLoad /\ [][NextLoad]_vars

\* The event bridge: project events from every actor, with the operations
\* that change what the listener's closure sees.
NextBridge ==
  \/ Render
  \/ \E u \in Users \cup {NoUser} : SetUser(u)
  \/ \E k \in EventKinds, a \in Actors : BridgeEvent(k, a)

SpecBridge == InitLedger /\ [][NextBridge]_vars

\* The settings operations alone, over several page loads.
NextSettings ==
  \/ Render
  \/ \E u \in Users \cup {NoUser} : SetUser(u)
  \/ \E p \in Partials : UpdateSettings(p)
  \/ \E i \in 1..Len(calls), o \in Outcomes : PermissionSettles(i, o)
  \/ Reload

InitSettings == Init /\ storage \in SettingsStores

SpecSettings == InitSettings /\ [][NextSettings]_vars

\* Sends by user A under every platform permission, with the push setting as
\* loaded or as switched off by updateSettings.
NextDispatch ==
  \/ Render
  \/ SetUser("A")
  \/ \E pl \in Payloads : SendNotification(pl)
  \/ UpdateSettings([push |-> FALSE])

SpecDispatch == InitSettings /\ [][NextDispatch]_vars

\* One page session of settings updates and permission prompts.
NextPermission ==
  \/ Render
  \/ \E u \in Users \cup {NoUser} : SetUser(u)
  \/ \E p \in Partials : UpdateSettings(p)
  \/ \E i \in 1..Len(calls), o \in Outcomes : PermissionSettles(i, o)

SpecPermission == InitSettings /\ [][NextPermission]_vars

\* Settings saved in one page session and loaded by the next.
NextRoundTrip ==
  \/ Render
  \/ \E u \in Users \cup {NoUser} : SetUser(u)
  \/ \E p \in Partials : UpdateSettings(p)
  \/ Reload

SpecRoundTrip == InitSettings /\ [][NextRoundTrip]_vars

TypeOK ==
  /\ user \in Users \cup {NoUser}
  /\ unreadCount \in Nat
  /\ Len(notifications) <= MaxNotifications
  /\ DOMAIN settings = SettingKeys

\* ------------------------------------------------------------------ claims

\* C1: in every state the provider shows, unreadCount equals the number of
\* ledger entries whose read flag is false.
UnreadAccounting == mounted => unreadCount = UnreadOf(notifications)

\* the ledger the next render will show
Pending == ApplyQueue(qNotifications, notifications, storage).led

\* id a was generated after id b: later clock reading, or the same reading
\* and a larger counter
Newer(a, b) == a[1] > b[1] \/ (a[1] = b[1] /\ a[2] > b[2])
NewestFirst(led) == \A i, j \in 1..Len(led) : i < j => Newer(led[i].id, led[j].id)

IsSend(op) == op.op \in {"sendNotification"} \cup EventKinds /\ op.info.id # <<>>

\* C2: the ledger never holds more than 50 entries and stays newest first;
\* an append puts the new entry at the head, keeps the others in order, and
\* what it drops at capacity is the tail.
CapacityInvariant ==
  /\ [](Len(notifications) <= 50 /\ Len(Pending) <= 50 /\ NewestFirst(notifications))
  /\ [][IsSend(lastOp') =>
          /\ Len(Pending') = Min(Len(Pending) + 1, 50)
          /\ Pending'[1].id = lastOp'.info.id
          /\ \A i \in 2..Len(Pending') : Pending'[i] = Pending[i - 1]]_vars

\* a full ledger after an append evicted the oldest stored entry
CapacityWitness ==
  /\ mounted /\ Len(notifications) = 50
  /\ notifications[1].id[1] = 1
  /\ notifications[50].id = <<0, 2, 0>>

\* C3: settings.push is true only if the platform push permission is granted.
PushOnlyIfGranted == mounted => (settings.push => permission = "granted")

\* an updateSettings({push: true}) call has just resumed without a grant
Denied == lastOp.op = "permission" /\ ~lastOp.info.granted

\* the settings the next render shows have push off
InMemoryOff == mounted => (qSettings # <<>> /\ ~qSettings[1].push)

PersistedOff(u) ==
  /\ storage[SettingsKey(u)].t = "obj"
  /\ ~ParseObject(storage[SettingsKey(u)]).push

\* the call wrote the settings entry twice: push true, then push false
TwoWrites(w) == Len(w) = 2 /\ w[1].push /\ ~w[2].push

NothingThrown == ~lastOp.threw

\* C6: initialize runs for every user id that becomes the current user, and
\* exactly once for each.
PerUserInitialization ==
  /\ [](mounted /\ user # NoUser => user \in loaded)
  /\ [][(~qInitialized /\ qInitialized') => user' \notin loaded]_vars

\* ids of the persisted ledger of user u
PersistedIds(u) ==
  IF storage[NotificationsKey(u)].t = "arr"
  THEN IdsOf(ParseArray(storage[NotificationsKey(u)])) ELSE {}

\* C7: once the current user's stored ledger has been loaded and rendered,
\* markAsRead and markAllAsRead remove no entry, neither from the ledger the
\* provider shows next nor from a persisted ledger; this includes a mark
\* issued after an append and before the render that applies it.
MarksKeepEntries ==
  [][(initialized /\ user \in loaded /\ lastOp'.op \in {"markAsRead", "markAllAsRead"}) =>
       /\ IdsOf(Pending) \subseteq IdsOf(Pending')
       /\ \A u \in Users : PersistedIds(u) \subseteq PersistedIds(u)']_vars

\* the unread count the next render shows
PendingUnread == IF qUnread = <<>> THEN unreadCount ELSE qUnread[1]

\* C8: an append whose id is already in the ledger leaves the ledger, the
\* persisted entries and the unread count as they were.
IdempotentAppend ==
  [][(IsSend(lastOp') /\ HasId(Pending, lastOp'.info.id)) =>
       /\ Pending' = Pending
       /\ storage' = storage
       /\ PendingUnread' = PendingUnread]_vars

\* the initialize effect runs in this step and line 108 returns
InitializeStep == ~qInitialized /\ qInitialized'

\* a settings value was persisted for the user initialize runs for
Persisted(u) == storage[SettingsKey(u)].t = "obj"

\* C9: settings persisted and then loaded by initialize come back equal,
\* field for field.
SettingsRoundTrip ==
  [][(InitializeStep /\ Persisted(user')) =>
       qSettings'[1] = ParseObject(storage[SettingsKey(user')])]_vars

\* C9 as amended: they come back equal in every field but push; push comes
\* back true when the provider saw push support and the permission is
\* granted, false when it saw push support and the permission is denied, and
\* as persisted otherwise.
SettingsRoundTripAmended ==
  [][(InitializeStep /\ Persisted(user')) =>
       LET s == ParseObject(storage[SettingsKey(user')])
           t == qSettings'[1]
       IN /\ \A k \in SettingKeys \ {"push"} : t[k] = s[k]
          /\ t.push = IF pushSupported' /\ permission = "granted" THEN TRUE
                      ELSE IF pushSupported' /\ permission = "denied" THEN FALSE
                      ELSE s.push]_vars

\* a value written by updateSettings in one session is loaded by the next
SettingsRoundTripWitness ==
  /\ clock > 1 /\ qInitialized
  /\ qSettings # <<>> /\ ~qSettings[1].email

\* C10: while subscribed, a project event from the current user appends
\* nothing and leaves the ledger and the unread count alone; one from another
\* user appends exactly one team/push notification.
SelfActionSuppression ==
  [][lastOp'.op \in EventKinds =>
       LET actor == lastOp'.info.tag IN
       /\ actor = user =>
            /\ qNotifications' = qNotifications /\ notifications' = notifications
            /\ qUnread' = qUnread /\ unreadCount' = unreadCount
            /\ storage' = storage
       /\ (actor \in Users \ {user} /\ settings.teamUpdates) =>
            /\ Len(Pending') = Min(Len(Pending) + 1, 50)
            /\ Pending'[1].category = "team" /\ Pending'[1].type = "push"
            /\ Pending'[1].data = actor /\ ~Pending'[1].read
            /\ \A i \in 2..Len(Pending') : Pending'[i] = Pending[i - 1]
            /\ PendingUnread' = PendingUnread + 1]_vars

\* the current user's own event arrived at a ledger that holds a team entry
SelfActionWitness ==
  /\ lastOp.op \in EventKinds /\ lastOp.info.tag = user /\ subscribed
  /\ notifications # <<>> /\ notifications[1].category = "team"

\* the integer d with (d - 1) days < due - now <= d days
DaysUntil(due, now) ==
  CHOOSE d \in -20..20 : d * DayMs >= due - now /\ (d - 1) * DayMs < due - now

\* what the Deadline Alerts rule asks for a project: a message, or nothing
ExpectedAlert(project, now) ==
  IF project.status = "completed" \/ project.due = Missing THEN <<>>
  ELSE LET days == DaysUntil(project.due[1], now) IN
       IF days = 1 THEN <<"tomorrow">>
       ELSE IF days = 3 THEN <<"in 3 days">>
       ELSE IF days < 0 THEN <<"overdue", Abs(days)>>
       ELSE <<>>

\* the entries the step put in front of the ledger the next render shows
Emitted == SubSeq(Pending', 1, Len(lastOp'.info.ids))
KeepsOlder ==
  /\ Len(Pending') = Len(Pending) + Len(lastOp'.info.ids)
  /\ \A i \in 1..Len(Pending) : Pending'[Len(lastOp'.info.ids) + i] = Pending[i]

\* C11: with deadlineAlerts enabled and a user signed in, a pass of the
\* Deadline Alerts rule emits, for each project, exactly one category=deadline
\* type=push notification when the project is not completed, has a due date
\* and days = ceiling((due - now) / one day) is 1, 3 or negative (the message
\* then states abs(days)), and none otherwise; nothing else is emitted.
DeadlineRule ==
  [][(lastOp'.op = "scheduleDeadlineAlerts" /\ settings.deadlineAlerts /\ user # NoUser) =>
       LET projects == lastOp'.info.projects
           now == lastOp'.info.now
           for(p) == {i \in 1..Len(Emitted) : Emitted[i].data.projectId = p.id}
       IN /\ KeepsOlder
          /\ \A i \in 1..Len(Emitted) :
               /\ Emitted[i].category = "deadline" /\ Emitted[i].type = "push"
               /\ \E j \in 1..Len(projects) : Emitted[i].data.projectId = projects[j].id
          /\ \A j \in 1..Len(projects) :
               IF ExpectedAlert(projects[j], now) = <<>>
               THEN for(projects[j]) = {}
               ELSE /\ Cardinality(for(projects[j])) = 1
                    /\ \A i \in for(projects[j]) :
                         Emitted[i].data.message = ExpectedAlert(projects[j], now)]_vars

\* now within 2024-06-10: the project due 2024-06-11 got its "due tomorrow"
\* alert and the one due 2024-06-05 its alert for 5 days overdue
DeadlineRuleWitness ==
  /\ mounted /\ Len(notifications) = 2
  /\ Now \in Day(10)..(Day(11) - 1)
  /\ notifications[2].data = [projectId |-> "p1", message |-> <<"tomorrow">>]
  /\ notifications[1].data = [projectId |-> "p2", message |-> <<"overdue", 5>>]
  /\ notifications[1].category = "deadline"

RECURSIVE TotalOf(_)
\* the sum of the values, a missing value counting as 0
TotalOf(values) ==
  IF values = <<>> THEN 0
  ELSE (IF Head(values) = Missing THEN 0 ELSE Head(values)[1]) + TotalOf(Tail(values))

Budgets(projects) == [i \in 1..Len(projects) |-> projects[i].budget]
Progresses(projects) == [i \in 1..Len(projects) |-> Some(projects[i].progress)]

\* a is an integer nearest to total / n
NearestMean(a, total, n) == 2 * Abs(a * n - total) <= n

\* C12: with weeklySummary enabled, a user signed in and a non-empty project
\* set, sendWeeklySummary emits exactly one category=summary type=email
\* notification whose payload has totalBudget = the sum of the budgets
\* (missing counted as 0) and avgProgress = the mean progress rounded to the
\* nearest integer.
SummaryArithmetic ==
  [][(/\ lastOp'.op = "sendWeeklySummary"
      /\ settings.weeklySummary /\ user # NoUser
      /\ lastOp'.info.projects # <<>>) =>
       LET projects == lastOp'.info.projects IN
       /\ Len(lastOp'.info.ids) = 1
       /\ KeepsOlder
       /\ Emitted[1].category = "summary" /\ Emitted[1].type = "email"
       /\ Emitted[1].data.total = Len(projects)
       /\ Emitted[1].data.totalBudget = TotalOf(Budgets(projects))
       /\ NearestMean(Emitted[1].data.avgProgress,
                      TotalOf(Progresses(projects)), Len(projects))]_vars

\* budgets [1000, 2000, 0] and progress [50, 100, 0]: the summary in the
\* ledger reports avgProgress 50 and totalBudget 3000
SummaryArithmeticWitness ==
  /\ mounted /\ notifications # <<>>
  /\ notifications[1].category = "summary"
  /\ lastOp.op = "render"
  /\ notifications[1].data.total = 3
  /\ notifications[1].data.avgProgress = 50
  /\ notifications[1].data.totalBudget = 3000

\* the ids the generator returned in the step that ends in the state of op
Generated(op) ==
  IF op.op \in {"scheduleDeadlineAlerts", "sendWeeklySummary"}
  THEN {op.info.ids[i] : i \in 1..Len(op.info.ids)}
  ELSE IF IsSend(op) THEN {op.info.id} ELSE {}

Distinct(led) == \A i, j \in 1..Len(led) : led[i].id = led[j].id => i = j

\* C13: within one process the counter never decreases and every id the
\* generator returns carries a counter value above the counter before the
\* call, one value per id, so it differs from every id returned earlier in
\* the process whatever the timestamp and the random suffix; and no two
\* entries of the ledger share an id.
IdentifierUniqueness ==
  /\ [][/\ notificationCounter' >= notificationCounter
        /\ {id[2] : id \in Generated(lastOp')}
             = (notificationCounter + 1)..notificationCounter'
        /\ Cardinality(Generated(lastOp')) = notificationCounter' - notificationCounter]_vars
  /\ [](Distinct(notifications) /\ Distinct(Pending))

\* two ids generated at one clock reading with one random suffix, both in the
\* ledger of a user who had none stored
IdentifierUniquenessWitness ==
  /\ mounted /\ Len(notifications) >= 2
  /\ notifications[1].id[1] = notifications[2].id[1]
  /\ notifications[1].id[3] = notifications[2].id[3]
  /\ notifications[1].id[2] = 2 /\ notifications[2].id[2] = 1
  /\ notificationCounter = 2
  /\ user = "B" /\ loaded = {"B"}

\* entry b is entry a, or a with its read flag set
SameButRead(a, b) == b = a \/ b = [a EXCEPT !.read = TRUE]

\* C14: once the current user's ledger has been loaded and rendered, a
\* markAsRead(id) changes at most the read flag of the entry with that id and
\* a markAllAsRead at most the read flags: every entry keeps its place, its
\* id, type, category and content, and a markAsRead of an id no entry has
\* leaves the ledger as it was.
NotificationImmutability ==
  [][(initialized /\ user \in loaded /\ lastOp'.op \in {"markAsRead", "markAllAsRead"}) =>
       /\ Len(Pending') = Len(Pending)
       /\ \A i \in 1..Len(Pending) :
            IF lastOp'.op = "markAllAsRead" \/ Pending[i].id = lastOp'.info.marked
            THEN SameButRead(Pending[i], Pending'[i])
            ELSE Pending'[i] = Pending[i]]_vars

\* C15: with the current user's ledger loaded, no storage write having
\* failed and every ledger operation applied by a render, the entry persisted
\* under the current user's key is the in-memory ledger (or is absent while
\* the ledger is empty).
PersistedMirror ==
  (mounted /\ initialized /\ user \in loaded /\ ~Dirty /\ failures = 0) =>
    \/ storage[NotificationsKey(user)] = StringifyArray(notifications)
    \/ notifications = <<>> /\ storage[NotificationsKey(user)] = NullItem

\* a localStorage.setItem call of the step threw, outside the initialize effect
PersistFailed == failures' > failures /\ lastOp'.info # Phase("initialize")

\* C16: a storage write that fails during an append, a markAsRead, a
\* markAllAsRead or an updateSettings does not undo the in-memory mutation:
\* the provider stays mounted and the ledger / settings it shows next hold
\* the mutation (for an append, the new notification).
FailedPersistKeepsMutation ==
  [][PersistFailed =>
       /\ mounted'
       /\ lastOp'.info = Phase("render") => Pending' = Pending
       /\ lastOp'.op = "markAsRead" =>
            Pending' = MarkOne(notifications, lastOp'.info.marked)
       /\ lastOp'.op = "markAllAsRead" => Pending' = MarkEvery(notifications)
       /\ IsSend(lastOp') => HasId(Pending', lastOp'.info.id)
       /\ lastOp'.op = "updateSettings" =>
            qSettings' = <<Spread(settings, lastOp'.info.partial)>>]_vars

\* C17: a sendNotification call constructs a native alert exactly when, at
\* the call, the provider's pushSupported and settings.push are true and the
\* platform permission is granted; whether or not an alert is constructed, and
\* also when its construction fails, the ledger the provider shows next holds
\* the new notification.
PushDispatchCondition ==
  [][lastOp'.op = "sendNotification" =>
       /\ lastOp'.info.alert \in {"shown", "failed"}
            <=> (pushSupported /\ permission = "granted" /\ settings.push)
       /\ HasId(Pending', lastOp'.info.id)
       /\ Pending'[1].id = lastOp'.info.id]_vars

\* the construction of the alert failed and the notification is in the ledger
PushDispatchWitness ==
  /\ lastOp.op = "sendNotification" /\ lastOp.info.alert = "failed"
  /\ settings.push /\ pushSupported /\ permission = "granted"
  /\ Pending # <<>> /\ Pending[1].id = lastOp.info.id

\* the initialize effect ran in this step and its localStorage writes returned
InitializeRuns == lastOp'.info = Phase("initialize") /\ ~lastOp'.threw

\* the value of a settings field as stored for u, the default when the entry
\* is absent or does not parse
StoredOrDefault(u, k) ==
  IF storage[SettingsKey(u)].t = "obj" /\ k \in {m[1] : m \in storage[SettingsKey(u)].v}
  THEN ParseObject(storage[SettingsKey(u)])[k]
  ELSE defaultSettings[k]

\* the settings initialize must arrive at for u on a push-capable platform
SyncedSettings(u) ==
  [k \in SettingKeys |->
     IF k = "push" /\ permission = "granted" THEN TRUE
     ELSE IF k = "push" /\ permission = "denied" THEN FALSE
     ELSE StoredOrDefault(u, k)]

\* C18: when initialize runs for a user on a push-capable platform (and
\* localStorage accepts the write), the settings it sets have push true if the
\* permission is granted, false if it is denied and the stored flag otherwise,
\* with the defaults standing in for an absent or corrupt entry; they are
\* persisted under that user's key in the same step.
InitializationSync ==
  [][(InitializeRuns /\ platformSupported) =>
       /\ qSettings' = <<SyncedSettings(user')>>
       /\ storage'[SettingsKey(user')] = StringifyObject(SyncedSettings(user'))]_vars

\* initialize ran for B, whose stored entry was corrupt, with the permission
\* granted: defaults with push forced on, set and persisted
InitializationSyncWitness ==
  /\ lastOp.info = Phase("initialize") /\ ~lastOp.threw
  /\ user = "B" /\ platformSupported /\ permission = "granted"
  /\ qSettings = <<[defaultSettings EXCEPT !.push = TRUE]>>
  /\ storage[SettingsKey("B")] = StringifyObject([defaultSettings EXCEPT !.push = TRUE])

RECURSIVE FirstOccurrences(_, _)
\* the entries of led from index i on that no earlier index has the id of
FirstOccurrences(led, i) ==
  IF i > Len(led) THEN <<>>
  ELSE (IF \E j \in 1..(i - 1) : led[j].id = led[i].id THEN <<>> ELSE <<led[i]>>)
         \o FirstOccurrences(led, i + 1)

\* the initialize effect ran in this step over a stored ledger, no write failing
LoadsLedger ==
  /\ lastOp'.info = Phase("initialize") /\ ~lastOp'.threw /\ failures' = failures
  /\ storage[NotificationsKey(user')].t = "arr"

\* C19: loading a stored ledger sets the in-memory ledger to the stored
\* sequence with only the first occurrence of each id, in stored order; the
\* stored entry is rewritten, with that sequence, exactly when an entry was
\* removed; and the unread count is set to the number of unread entries of
\* that sequence.
LedgerLoadRepair ==
  [][LoadsLedger =>
       LET stored == ParseArray(storage[NotificationsKey(user')])
           kept == FirstOccurrences(stored, 1)
       IN /\ qNotifications' = <<[op |-> "set", val |-> kept]>>
          /\ qUnread' = <<Cardinality({i \in 1..Len(kept) : ~kept[i].read})>>
          /\ storage'[NotificationsKey(user')] =
               IF Len(kept) < Len(stored) THEN StringifyArray(kept)
               ELSE storage[NotificationsKey(user')]]_vars

\* A's stored ledger of five entries with two repeated ids was loaded as
\* three entries, two of them unread, and rewritten
LedgerLoadRepairWitness ==
  /\ lastOp.info = Phase("initialize") /\ user = "A"
  /\ qNotifications = <<[op |-> "set",
                         val |-> <<OldEntry(2, FALSE), OldEntry(1, TRUE), OldEntry(3, FALSE)>>]>>
  /\ qUnread = <<2>>
  /\ storage[NotificationsKey("A")] =
       StringifyArray(<<OldEntry(2, FALSE), OldEntry(1, TRUE), OldEntry(3, FALSE)>>)

SubscriptionWindow ==
  /\ [](subscribed =>
          /\ mounted /\ settings.teamUpdates
          /\ user # NoUser /\ initialized /\ user \in loaded)
  /\ [][lastOp'.op \in EventKinds =>
          /\ IsSend(lastOp') => (subscribed /\ settings.teamUpdates /\ user \in loaded)
          /\ ~subscribed =>
               /\ qNotifications' = qNotifications /\ qUnread' = qUnread
               /\ storage' = storage]_vars

\* the projects the Task Reminders rule asks to select: not completed, with a
\* due date whose days-until-due lies in 0..7
DueThisWeek(projects, now) ==
  { j \in 1..Len(projects) :
      /\ projects[j].status # "completed"
      /\ projects[j].due # Missing
      /\ DaysUntil(projects[j].due[1], now) \in 0..7 }

GroupsOf(project, now) ==
  (IF project.status = "completed" /\ project.updated >= now - 7 * DayMs
   THEN {"completed"} ELSE {})
  \cup (IF project.status \in {"in_progress", "planning"} THEN {"inProgress"} ELSE {})
  \cup (IF project.status # "completed" /\ project.due # Missing /\ project.due[1] < now
        THEN {"overdue"} ELSE {})

\* the number of projects counted in group g
GroupSize(projects, now, g) ==
  Cardinality({j \in 1..Len(projects) : g \in GroupsOf(projects[j], now)})

\* C23: the three counts of an emitted weekly summary (completed in the last
\* 7 days, in progress or planning, overdue) are the sizes of groups that
\* share no project: no project of the set is counted in more than one.
SummaryPartition ==
  [][(lastOp'.op = "sendWeeklySummary" /\ Len(lastOp'.info.ids) = 1 /\ user \in loaded) =>
       LET projects == lastOp'.info.projects
           now == lastOp'.info.now
           d == Emitted[1].data
       IN /\ d.completed = GroupSize(projects, now, "completed")
          /\ d.inProgress = GroupSize(projects, now, "inProgress")
          /\ d.overdue = GroupSize(projects, now, "overdue")
          /\ \A j \in 1..Len(projects) : Cardinality(GroupsOf(projects[j], now)) <= 1
          /\ d.completed + d.inProgress + d.overdue <= d.total]_vars

\* every entry of led was created for user u
OnlyOf(led, u) == \A i \in 1..Len(led) : led[i].data = PersonalData(u)

\* C24: over sign-in, sign-out, user switch and ledger and settings
\* operations of one provider lifetime, the notifications entry stored under
\* a user's key holds only notifications created while that user was the
\* current user, the settings entry stored under the key holds only values
\* that user set (e-mail, which B never switches off, stays enabled for B),
\* and the ledger shown to the user once the provider has settled holds no
\* notification created while another user was current.
PerUserIsolation ==
  \A u \in Users :
    /\ storage[NotificationsKey(u)].t = "arr" =>
         OnlyOf(ParseArray(storage[NotificationsKey(u)]), u)
    /\ (u = "B" /\ storage[SettingsKey(u)].t = "obj") =>
         ParseObject(storage[SettingsKey(u)]).email
    /\ (mounted /\ user = u /\ initialized /\ ~Dirty) =>
         /\ OnlyOf(notifications, u)
         /\ unreadCount <= Cardinality({i \in 1..Len(notifications) :
                                          notifications[i].data = PersonalData(u)})

\* the settings the next render will show
PendingSettings == IF qSettings = <<>> THEN settings ELSE qSettings[1]

\* C25: no settings update is lost.  An updateSettings call leaves every
\* field it does not name as the calls before it set it, in the settings to
\* be shown and in the persisted entry, also when the provider has not
\* re-rendered since the earlier call; and the rollback of a push request
\* that was not granted changes no field but push, also when another call
\* was made while the permission request was pending.
NoLostSettingsUpdate ==
  [][(mounted /\ initialized /\ user \in loaded /\ ~lastOp'.threw) =>
       /\ lastOp'.op = "updateSettings" =>
            \A k \in SettingKeys \ DOMAIN lastOp'.info.partial :
              /\ PendingSettings'[k] = PendingSettings[k]
              /\ ParseObject(storage'[SettingsKey(user)])[k] = PendingSettings[k]
       /\ (lastOp'.op = "permission" /\ ~lastOp'.info.granted /\ lastOp'.info.uid = user) =>
            \A k \in SettingKeys \ {"push"} :
              /\ PendingSettings'[k] = PendingSettings[k]
              /\ ParseObject(storage'[SettingsKey(user)])[k] = PendingSettings[k]]_vars

\* the Modal instances that are open
OpenModals == {m \in ModalIds : modals[m].mounted /\ modals[m].isOpen}

\* C26: whatever the order in which Modal instances were opened and closed,
\* nested ones included, once no modal is open the body scroll is unlocked:
\* document.body.style.overflow is back at the value it had before any modal
\* was open and is not "hidden".
ScrollLockRelease == (OpenModals = {}) => (bodyOverflow = "" /\ bodyOverflow # "hidden")

\* C27: activeModalCount is never negative and equals the number of Modal
\* instances that are open: each is counted once and un-counted once, by one
\* of the two cleanups and never by both; and the body scroll is locked
\* whenever activeModalCount > 0.
ModalReferenceCount ==
  /\ [](/\ activeModalCount \in Nat
        /\ activeModalCount = Cardinality(OpenModals)
        /\ activeModalCount > 0 => bodyOverflow = "hidden")
  /\ [][activeModalCount' >= activeModalCount - 1]_vars

\* the runs of performSafetyCheck and of checkScrollState
SafetyChecks == {"scrollManagerMount", "timeoutCheck", "periodicCheck", "debugCheck"}

\* the body scroll is locked although no modal is open
OrphanedLock == bodyOverflow = "hidden" /\ ~HasOpenModals

\* C28: while ScrollManager is mounted, a body scroll that is locked with no
\* modal open is eventually unlocked by a safety check (or a modal opens, or
\* ScrollManager unmounts); and no safety check, whether after focus, after a
\* visibility change, periodic or the debug one, unlocks the body scroll
\* while a modal is open.
ScrollSafetyNet ==
  /\ (scrollManager.mounted /\ OrphanedLock)
       ~> (~OrphanedLock \/ ~scrollManager.mounted)
  /\ [][(lastOp'.op \in SafetyChecks /\ HasOpenModals) =>
          bodyOverflow' = bodyOverflow]_vars

\* the periodic check has just unlocked a body scroll that the close of two
\* nested modals had left locked
ScrollSafetyNetWitness ==
  /\ lastOp = Op("periodicCheck", FALSE, [reset |-> TRUE])
  /\ scrollManager.mounted /\ bodyOverflow = "" /\ activeModalCount = 0
  /\ \E m \in ModalIds : modals[m].mounted /\ modals[m].original = "hidden"

\* the projects of the set that the Weekly Summary counts as overdue
OverdueIn(projects, now) ==
  {projects[j].id : j \in {i \in 1..Len(projects) : "overdue" \in GroupsOf(projects[i], now)}}

\* C29: for every project set and instant, the projects a Deadline Alerts
\* pass emits an overdue alert for are exactly those the Weekly Summary
\* counts as overdue (not completed, due date in the past), and a Task
\* Reminders pass selects none of them as upcoming.
OverdueConsistency ==
  [][(user # NoUser /\ user \in loaded) =>
       LET projects == lastOp'.info.projects
           now == lastOp'.info.now
       IN /\ (lastOp'.op = "scheduleDeadlineAlerts" /\ settings.deadlineAlerts) =>
               {Emitted[i].data.projectId :
                  i \in {k \in 1..Len(Emitted) : Emitted[k].data.message[1] = "overdue"}}
                 = OverdueIn(projects, now)
          /\ (lastOp'.op = "scheduleTaskReminders" /\ Len(lastOp'.info.ids) = 1) =>
               \A i \in 1..Len(Emitted[1].data.projects) :
                 Emitted[1].data.projects[i] \notin OverdueIn(projects, now)]_vars

\* request i moved from phase `from` to phase `to` in this step
Moved(i, from, to) ==
  /\ i \in 1..Len(requests) /\ requests[i].phase = from
  /\ requests' = [requests EXCEPT ![i].phase = to]

\* request i, in phase `from`, ended in this step
Ended(i, from) ==
  /\ i \in 1..Len(requests) /\ requests[i].phase = from
  /\ requests' = RemoveAt(requests, i)

\* C30: createProject, updateProject and deleteProject dispatch their event
\* ('projectCreated' for createProject, 'projectUpdated' for the other two)
\* only when their API call has succeeded, exactly once for each successful
\* call and with the user who made the call as actor; a call made without an
\* authenticated user, or whose token or API request fails, dispatches
\* nothing and rejects.
EventsFollowSuccess ==
  [][/\ \A i \in 1..Len(requests) :
          /\ Moved(i, "api", "refresh") =>
               events' = Append(events, [kind |-> IF requests[i].op = "createProject"
                                                  THEN "projectCreated" ELSE "projectUpdated",
                                         actor |-> requests[i].uid,
                                         op |-> requests[i].op])
          /\ (Ended(i, "token") \/ Ended(i, "api")) =>
               /\ events' = events
               /\ lastOp'.threw /\ lastOp'.op = requests[i].op
          /\ Ended(i, "refresh") => (events' = events /\ ~lastOp'.threw)
     /\ events' # events => \E i \in 1..Len(requests) : Moved(i, "api", "refresh")
     /\ (lastOp'.op \in ProjectOps /\ user = NoUser /\ requests' = requests) =>
          (lastOp'.threw /\ events' = events)]_vars

\* deleteProject by A resolved after dispatching one 'projectUpdated' event
\* that names A, and a createProject by B failed at the API without one
EventsFollowSuccessWitness ==
  /\ events = <<[kind |-> "projectUpdated", actor |-> "A", op |-> "deleteProject"]>>
  /\ requests = <<>>
  /\ lastOp = Op("createProject", TRUE, [uid |-> "B", at |-> "api"])
====
